---------------------------- MODULE Spec2Model ----------------------------
(***************************************************************************)
(* Model of the dnscontrol-library helpers: lib/util.js, lib/generic.js,   *)
(* lib/cloudflare.js and the Microsoft 365 helper (unnamed/part_001).      *)
(*                                                                         *)
(* JavaScript strings are TLA+ strings (Len, \o and SubSeq act on them),   *)
(* JavaScript arrays are sequences, null/undefined is the value null.      *)
(* 32-bit arithmetic is carried out on pairs <<hi, lo>> of 16-bit limbs    *)
(* (value = hi * 65536 + lo, 0 <= lo < 65536, hi any integer), because the *)
(* values of DCL_UTIL_HASH do not fit the model checker's integers.        *)
(***************************************************************************)
EXTENDS Integers, Sequences, FiniteSets, TLC

VARIABLES
    ret,        \* the value returned by the last builder / utility call
    input,      \* DCL_UTIL_HASH: the argument
    i,          \* DCL_UTIL_HASH: the loop index
    hash,       \* DCL_UTIL_HASH: the accumulator, as limbs <<hi, lo>>
    pc,         \* DCL_UTIL_HASH: "idle", "loop" or "done"
    closures,   \* the deferred closures the host runtime holds
    log,        \* the calls made into the host runtime, in order
    heap,       \* DCL_PARTIAL: the arrays, by reference
    callables   \* DCL_PARTIAL: the callables built so far

vars == <<ret, input, i, hash, pc, closures, log, heap, callables>>
hashVars == <<input, i, hash, pc>>
runtimeVars == <<closures, log>>
partialVars == <<heap, callables>>

\* No call has returned yet.
NoCall == [fn |-> "none"]

(***************************************************************************)
(* Bounds of the model.                                                    *)
(***************************************************************************)
MaxNameLen == 3
MaxHashLen == 7

(***************************************************************************)
(* JavaScript values.                                                      *)
(***************************************************************************)
null == "<null>"

\* ToBoolean on the values the helpers test: null, undefined and "" are falsy.
Truthy(v) == v /= null /\ v /= ""

\* The printable ASCII characters in code order: codes 32..95 and 97..126
\* (code 96, the backquote, cannot be written in a TLA+ string and is left out).
AsciiLow == " !\"#$%&'()*+,-./0123456789:;<=>?@ABCDEFGHIJKLMNOPQRSTUVWXYZ[\\]^_"
AsciiHigh == "abcdefghijklmnopqrstuvwxyz{|}~"

IndexIn(str, c) == CHOOSE n \in 1..Len(str) : SubSeq(str, n, n) = c
Occurs(str, c) == \E n \in 1..Len(str) : SubSeq(str, n, n) = c

\* The code of every character of the two tables.
CharCodes ==
    [c \in {SubSeq(AsciiLow, n, n) : n \in 1..Len(AsciiLow)}
            \cup {SubSeq(AsciiHigh, n, n) : n \in 1..Len(AsciiHigh)} |->
        IF Occurs(AsciiLow, c) THEN 31 + IndexIn(AsciiLow, c)
        ELSE 96 + IndexIn(AsciiHigh, c)]

\* String.prototype.charCodeAt(k), k counted from 0.
charCodeAt(s, k) == CharCodes[SubSeq(s, k + 1, k + 1)]

\* String.prototype.slice(-1): the last character, "" for the empty string.
SliceLast(s) == IF Len(s) = 0 THEN "" ELSE SubSeq(s, Len(s), Len(s))

RECURSIVE StringsUpTo(_, _)
\* All strings over the characters of `alphabet` of length at most n.
StringsUpTo(alphabet, n) ==
    IF n = 0 THEN {""}
    ELSE LET shorter == StringsUpTo(alphabet, n - 1)
         IN  shorter \cup {s \o c : s \in shorter, c \in alphabet}

(***************************************************************************)
(* lib/util.js                                                             *)
(***************************************************************************)
DCL_UTIL_FQDN_noRoot(domain, name) ==
    IF SliceLast(name) = "." THEN name
    ELSE name \o "." \o domain \o "."

DCL_UTIL_FQDN_noAbsolute(domain, name) ==
    IF name /= "@" THEN name \o "." \o domain \o "."
    ELSE domain \o "."

DCL_UTIL_FQDN(domain, name) ==
    IF SliceLast(name) = "." THEN name
    ELSE IF name /= "@" THEN name \o "." \o domain \o "."
    ELSE domain \o "."

\* --- 32-bit arithmetic on limbs ---------------------------------------
Limb == 65536

\* The limbs of hi * 65536 + lo for any integers hi, lo.
Norm(hi, lo) == <<hi + (lo \div Limb), lo % Limb>>

\* ToInt32: the value modulo 2^32, read as a signed 32-bit integer.
ToInt32(v) ==
    LET h == v[1] % Limb
    IN  <<IF h >= Limb \div 2 THEN h - Limb ELSE h, v[2]>>

\* ToUint32 (x >>> 0): the value modulo 2^32.
ToUint32(v) == <<v[1] % Limb, v[2]>>

\* x << 5: ToInt32 of the operand, shifted, as a signed 32-bit integer.
ShiftLeft5(v) == ToInt32(Norm(ToInt32(v)[1] * 32, v[2] * 32))

Minus(a, b) == Norm(a[1] - b[1], a[2] - b[2])
PlusInt(a, c) == Norm(a[1], a[2] + c)

\* One round of the loop body: hash = ((hash << 5) - hash) + character;
\* hash >>>= 0;
HashRound_signed(h, character) ==
    ToInt32(PlusInt(Minus(ShiftLeft5(h), h), character))

HashRound(h, character) ==
    ToUint32(PlusInt(Minus(ShiftLeft5(h), h), character))

\* --- Number.prototype.toString(16) --------------------------------------
HexDigit(d) == SubSeq("0123456789abcdef", d + 1, d + 1)

RECURSIVE HexNat(_)
\* The hexadecimal digits of a natural number, without leading zeros.
HexNat(n) == IF n < 16 THEN HexDigit(n) ELSE HexNat(n \div 16) \o HexDigit(n % 16)

\* The low limb as exactly four digits.
Hex4(n) ==
    HexDigit(n \div 4096) \o HexDigit((n \div 256) % 16)
        \o HexDigit((n \div 16) % 16) \o HexDigit(n % 16)

\* The limbs of -v.
Negate(v) == Norm(-v[1], -v[2])

ToString16(v) ==
    LET m == IF v[1] < 0 THEN Negate(v) ELSE v
        digits == IF m[1] = 0 THEN HexNat(m[2]) ELSE HexNat(m[1]) \o Hex4(m[2])
    IN  IF v[1] < 0 THEN "-" \o digits ELSE digits

RECURSIVE HashAfter(_, _)
\* The accumulator after the first k iterations of the loop of DCL_UTIL_HASH.
HashAfter(s, k) ==
    IF k = 0 THEN <<0, 0>>
    ELSE LET before == HashAfter(s, k - 1)
         IN  \* the accumulator is computed before the round is entered
             CASE before \in Seq(Int) -> HashRound(before, charCodeAt(s, k - 1))

DCL_UTIL_HASH(s) == ToString16(HashAfter(s, Len(s)))

(***************************************************************************)
(* DCL_UTIL_HASH as the program runs it: one step per loop iteration.      *)
(***************************************************************************)
HashAlphabet == {"~", "a"}

\* Nothing deferred, nothing partially applied (the other specifications).
RuntimeIdle == closures = {} /\ log = <<>>
PartialIdle == heap = <<>> /\ callables = <<>>

HashInit ==
    /\ input \in StringsUpTo(HashAlphabet, MaxHashLen)
    /\ i = 0
    /\ hash = <<0, 0>>
    /\ pc = "loop"
    /\ ret = NoCall
    /\ RuntimeIdle
    /\ PartialIdle

HashIterate ==
    /\ pc = "loop"
    /\ i < Len(input)
    /\ hash' = HashRound(hash, charCodeAt(input, i))
    /\ i' = i + 1
    /\ UNCHANGED <<input, pc, ret, runtimeVars, partialVars>>

HashReturn ==
    /\ pc = "loop"
    /\ ~(i < Len(input))
    /\ ret' = [fn |-> "DCL_UTIL_HASH", value |-> ToString16(hash)]
    /\ pc' = "done"
    /\ UNCHANGED <<input, i, hash, runtimeVars, partialVars>>

HashNext == HashIterate \/ HashReturn

SpecHash == HashInit /\ [][HashNext]_vars

\* The hash loop is not running (the other specifications).
HashIdle == input = "" /\ i = 0 /\ hash = <<0, 0>> /\ pc = "idle"

\* (31 * h + c) mod 2^32, by multiplication.
TimesThirtyOnePlus(h, c) ==
    LET lo == 31 * h[2] + c
    IN  <<(31 * h[1] + lo \div Limb) % Limb, lo % Limb>>

RECURSIVE Recurrence(_, _)
Recurrence(s, k) ==
    IF k = 0 THEN <<0, 0>>
    ELSE TimesThirtyOnePlus(Recurrence(s, k - 1), charCodeAt(s, k - 1))

HexDigits == "0123456789abcdef"

IsLowerHex(str) == \A n \in 1..Len(str) : Occurs(HexDigits, SubSeq(str, n, n))

RECURSIVE HexValue(_)
\* The number written by at most four hex digits.
HexValue(str) ==
    IF Len(str) = 0 THEN 0
    ELSE 16 * HexValue(SubSeq(str, 1, Len(str) - 1))
            + IndexIn(HexDigits, SubSeq(str, Len(str), Len(str))) - 1

\* The limbs of the number written by at most eight hex digits.
ParseHex(str) ==
    IF Len(str) <= 4 THEN <<0, HexValue(str)>>
    ELSE <<HexValue(SubSeq(str, 1, Len(str) - 4)),
           HexValue(SubSeq(str, Len(str) - 3, Len(str)))>>

(***************************************************************************)
(* C4.  The accumulator follows h_0 = 0, h_k = (31 * h_(k-1) + code) mod   *)
(* 2^32 and is an unsigned 32-bit integer after every character; the       *)
(* returned string is the lowercase hexadecimal rendering of the final     *)
(* accumulator: 1 to 8 hex digits, no sign, and "0" for the empty input.   *)
(***************************************************************************)
HashIsUnsigned32BitRecurrence ==
    /\ pc \in {"loop", "done"} =>
        /\ hash = Recurrence(input, i)
        /\ hash[1] \in 0..(Limb - 1)
        /\ hash[2] \in 0..(Limb - 1)
    /\ pc = "done" =>
        /\ Len(ret.value) \in 1..8
        /\ IsLowerHex(ret.value)
        /\ ParseHex(ret.value) = Recurrence(input, Len(input))
        /\ (Len(ret.value) > 1 => SubSeq(ret.value, 1, 1) /= "0")
        /\ (input = "" => ret.value = "0")

\* A hash returned after the accumulator wrapped around 2^32 with bit 31 set.
HashWrappedWitness ==
    /\ pc = "done"
    /\ Len(input) >= 7
    /\ hash[1] >= Limb \div 2
    /\ Len(ret.value) = 8

(***************************************************************************)
(* The primitives of the host runtime (dnscontrol): opaque constructors.   *)
(* A record modifier is an opaque tag; an array in a modifier position     *)
(* carries its items.                                                      *)
(***************************************************************************)
Modifier(tag) == [isArray |-> FALSE, tag |-> tag, items |-> <<>>]
Array(items) == [isArray |-> TRUE, tag |-> "", items |-> items]

A(name, address, modifiers) ==
    [type |-> "A", name |-> name, target |-> address, mods |-> modifiers]
AAAA(name, address, modifiers) ==
    [type |-> "AAAA", name |-> name, target |-> address, mods |-> modifiers]
CNAME(name, target, modifiers) ==
    [type |-> "CNAME", name |-> name, target |-> target, mods |-> modifiers]
ALIAS(name, target, modifiers) ==
    [type |-> "ALIAS", name |-> name, target |-> target, mods |-> modifiers]
PTR(name, target, modifiers) ==
    [type |-> "PTR", name |-> name, target |-> target, mods |-> modifiers]
TXT(name, value) == [type |-> "TXT", name |-> name, target |-> value]
MX(name, priority, target) ==
    [type |-> "MX", name |-> name, priority |-> priority, target |-> target]
REV(address) == [rev |-> address]

(***************************************************************************)
(* lib/generic.js: DCL_HOST                                                *)
(***************************************************************************)
DCL_HOST_elseIf(name, ipv4, ipv6, modifiers) ==
    IF Truthy(ipv4) THEN <<A(name, ipv4, modifiers)>>
    ELSE IF Truthy(ipv6) THEN <<AAAA(name, ipv6, modifiers)>>
    ELSE <<>>

\* `modifiers` are the arguments after the third ([].slice.call(arguments).slice(3)).
DCL_HOST(name, ipv4, ipv6, modifiers) ==
    LET records0 == <<>>
        records1 == IF Truthy(ipv4)
                    THEN Append(records0, A(name, ipv4, modifiers))
                    ELSE records0
        records2 == IF Truthy(ipv6)
                    THEN Append(records1, AAAA(name, ipv6, modifiers))
                    ELSE records1
    IN  records2

(***************************************************************************)
(* unnamed/part_001: DCL_MICROSOFT365                                      *)
(* An object (or undefined) is a record with the flag `defined`; a dkim    *)
(* map lists its enumerable properties in for-in order, each own or        *)
(* inherited.                                                              *)
(***************************************************************************)
RECURSIVE DkimRecords(_)
\* for (var selector in services.dkim) if (hasOwnProperty) records.push(CNAME(...))
DkimRecords(props) ==
    IF props = <<>> THEN <<>>
    ELSE LET p == Head(props)
         IN  (IF p.own THEN <<CNAME(p.selector \o "._domainkey", p.target, <<>>)>>
              ELSE <<>>) \o DkimRecords(Tail(props))

DefaultDkimRecords(mail) ==
    << CNAME("selector1._domainkey",
             "selector1-" \o mail \o "._domainkey.snapserv.onmicrosoft.com.", <<>>),
       CNAME("selector2._domainkey",
             "selector2-" \o mail \o "._domainkey.snapserv.onmicrosoft.com.", <<>>) >>

DCL_MICROSOFT365_dkimFirst(code, services) ==
    LET verification == <<TXT("@", "MS=" \o code)>>
    IN  IF services.defined /\ services.dkim.defined
        THEN verification \o DkimRecords(services.dkim.props)
        ELSE IF services.defined /\ Truthy(services.mail)
        THEN verification
                \o << MX("@", 0, services.mail \o ".mail.protection.outlook.com."),
                      TXT("@", "v=spf1 include:spf.protection.outlook.com -all"),
                      CNAME("autodiscover", "autodiscover.outlook.com.", <<>>) >>
                \o DefaultDkimRecords(services.mail)
        ELSE verification

DCL_MICROSOFT365(code, services) ==
    LET verification == <<TXT("@", "MS=" \o code)>>
    IN  IF services.defined /\ Truthy(services.mail)
        THEN verification
                \o << MX("@", 0, services.mail \o ".mail.protection.outlook.com."),
                      TXT("@", "v=spf1 include:spf.protection.outlook.com -all"),
                      CNAME("autodiscover", "autodiscover.outlook.com.", <<>>) >>
                \o (IF services.dkim.defined
                    THEN DkimRecords(services.dkim.props)
                    ELSE DefaultDkimRecords(services.mail))
        ELSE verification

(***************************************************************************)
(* The utilities and the immediate builders, called with arguments drawn   *)
(* from small sets; ret holds the call and what it returned.               *)
(***************************************************************************)
Zones == {"example.com", "b.", ""}
Names == StringsUpTo({"a", ".", "@"}, MaxNameLen) \cup {"www", "host."}

HostNames == {"www", "@"}
Ipv4s == {null, "1.2.3.4"}
Ipv6s == {null, "::1"}
ModifierLists ==
    { <<>>, <<Modifier("TTL(300)")>>, <<Modifier("TTL(300)"), Modifier("CF_PROXY_ON")>> }

DkimMaps ==
    { [defined |-> FALSE, props |-> <<>>],
      [defined |-> TRUE, props |-> <<>>],
      [defined |-> TRUE,
       props |-> <<[selector |-> "s1", target |-> "s1.dkim.example.net.", own |-> TRUE]>>],
      [defined |-> TRUE,
       props |-> <<[selector |-> "s1", target |-> "s1.dkim.example.net.", own |-> TRUE],
                   [selector |-> "s2", target |-> "s2.dkim.example.net.", own |-> TRUE]>>],
      [defined |-> TRUE,
       props |-> <<[selector |-> "s1", target |-> "s1.dkim.example.net.", own |-> TRUE],
                   [selector |-> "toString", target |-> "", own |-> FALSE]>>] }
ServiceMaps ==
    { [defined |-> FALSE, mail |-> null, dkim |-> [defined |-> FALSE, props |-> <<>>]] }
    \cup [defined : {TRUE}, mail : {null, "example-com"}, dkim : DkimMaps]

PureInit == ret = NoCall /\ HashIdle /\ RuntimeIdle /\ PartialIdle

CallFqdn ==
    /\ \E domain \in Zones, name \in Names :
          ret' = [fn |-> "DCL_UTIL_FQDN", domain |-> domain, name |-> name,
                  value |-> DCL_UTIL_FQDN(domain, name), again |-> FALSE]
    /\ UNCHANGED <<hashVars, runtimeVars, partialVars>>

\* The result of a call handed back as the name of a second call.
CallFqdnAgain ==
    /\ ret.fn = "DCL_UTIL_FQDN"
    /\ ~ret.again
    /\ ret' = [fn |-> "DCL_UTIL_FQDN", domain |-> ret.domain, name |-> ret.value,
               value |-> DCL_UTIL_FQDN(ret.domain, ret.value), again |-> TRUE]
    /\ UNCHANGED <<hashVars, runtimeVars, partialVars>>

CallHost ==
    /\ \E name \in HostNames, ipv4 \in Ipv4s, ipv6 \in Ipv6s, modifiers \in ModifierLists :
          ret' = [fn |-> "DCL_HOST", name |-> name, ipv4 |-> ipv4, ipv6 |-> ipv6,
                  modifiers |-> modifiers,
                  value |-> DCL_HOST(name, ipv4, ipv6, modifiers)]
    /\ UNCHANGED <<hashVars, runtimeVars, partialVars>>

CallMicrosoft365 ==
    /\ \E code \in {"ms12345678"}, services \in ServiceMaps :
          ret' = [fn |-> "DCL_MICROSOFT365", code |-> code, services |-> services,
                  value |-> DCL_MICROSOFT365(code, services)]
    /\ UNCHANGED <<hashVars, runtimeVars, partialVars>>

PureNext == CallFqdn \/ CallFqdnAgain \/ CallHost \/ CallMicrosoft365

SpecPure == PureInit /\ [][PureNext]_vars

EndsWithDot(s) == Len(s) > 0 /\ SubSeq(s, Len(s), Len(s)) = "."

(***************************************************************************)
(* C3.  DCL_UTIL_FQDN(zone, name) is name when name ends with ".", zone    *)
(* followed by "." when name is "@", and name "." zone "." otherwise; the  *)
(* result always ends with ".".                                            *)
(***************************************************************************)
FqdnThreeCases ==
    ret.fn = "DCL_UTIL_FQDN" =>
        /\ EndsWithDot(ret.name) => ret.value = ret.name
        /\ ret.name = "@" => ret.value = ret.domain \o "."
        /\ (~EndsWithDot(ret.name) /\ ret.name /= "@") =>
              ret.value = ret.name \o "." \o ret.domain \o "."
        /\ EndsWithDot(ret.value)

\* The root token was normalized against a non-empty zone.
FqdnRootWitness ==
    /\ ret.fn = "DCL_UTIL_FQDN"
    /\ ~ret.again
    /\ ret.name = "@"
    /\ ret.domain = "example.com"
    /\ ret.value = "example.com."

(***************************************************************************)
(* C8.  DCL_UTIL_FQDN is idempotent in its name argument: normalizing the  *)
(* result of a normalization against the same zone returns it unchanged.   *)
(***************************************************************************)
FqdnIdempotent ==
    (ret.fn = "DCL_UTIL_FQDN" /\ ret.again) => ret.value = ret.name

\* A relative name was normalized and the result normalized again.
FqdnIdempotentWitness ==
    /\ ret.fn = "DCL_UTIL_FQDN"
    /\ ret.again
    /\ ret.domain = "example.com"
    /\ ret.value = "www.example.com."

(***************************************************************************)
(* C5.  DCL_HOST returns A(name, ipv4, ...mods) iff ipv4 is non-null, then *)
(* AAAA(name, ipv6, ...mods) iff ipv6 is non-null, and nothing else; with  *)
(* both addresses null it returns the empty list.                          *)
(***************************************************************************)
HostRecordsPerAddress ==
    ret.fn = "DCL_HOST" =>
        LET a == A(ret.name, ret.ipv4, ret.modifiers)
            aaaa == AAAA(ret.name, ret.ipv6, ret.modifiers)
            n == Len(ret.value)
        IN  /\ (ret.ipv4 /= null) <=> (\E k \in 1..n : ret.value[k] = a)
            /\ (ret.ipv6 /= null) <=> (\E k \in 1..n : ret.value[k] = aaaa)
            /\ n = (IF ret.ipv4 /= null THEN 1 ELSE 0) + (IF ret.ipv6 /= null THEN 1 ELSE 0)
            /\ n = 2 => (ret.value[1] = a /\ ret.value[2] = aaaa)
            /\ (ret.ipv4 = null /\ ret.ipv6 = null) => ret.value = <<>>

\* DCL_HOST returned both records, with modifiers.
HostBothWitness ==
    /\ ret.fn = "DCL_HOST"
    /\ ret.ipv4 /= null
    /\ ret.ipv6 /= null
    /\ ret.modifiers /= <<>>
    /\ Len(ret.value) = 2

OwnSelectors(props) == {k \in 1..Len(props) : props[k].own}

(***************************************************************************)
(* C10.  DCL_MICROSOFT365 returns exactly the MS= verification TXT when    *)
(* services or services.mail is missing, even if services.dkim is given;   *)
(* with mail set and dkim a defined map, the 4 base records plus one CNAME *)
(* per own selector (none for an empty map); with mail set and dkim        *)
(* absent, the 4 base records plus the two default selector CNAMEs.        *)
(***************************************************************************)
Ms365RecordCounts ==
    ret.fn = "DCL_MICROSOFT365" =>
        LET s == ret.services
            v == ret.value
            mailSet == s.defined /\ s.mail /= null
            dkimCnames == {k \in 5..Len(v) : v[k].type = "CNAME"}
        IN  /\ v[1] = TXT("@", "MS=" \o ret.code)
            /\ ~mailSet => Len(v) = 1
            /\ mailSet =>
                /\ Len(v) >= 4
                /\ <<v[2].type, v[3].type, v[4].type>> = <<"MX", "TXT", "CNAME">>
                /\ dkimCnames = 5..Len(v)
            /\ (mailSet /\ s.dkim.defined) =>
                /\ Len(v) = 4 + Cardinality(OwnSelectors(s.dkim.props))
                /\ \A p \in OwnSelectors(s.dkim.props) :
                      \E k \in 5..Len(v) :
                          /\ v[k].name = s.dkim.props[p].selector \o "._domainkey"
                          /\ v[k].target = s.dkim.props[p].target
                /\ (s.dkim.props = <<>> => Len(v) = 4)
            /\ (mailSet /\ ~s.dkim.defined) =>
                /\ Len(v) = 6
                /\ v[5].name = "selector1._domainkey"
                /\ v[6].name = "selector2._domainkey"

\* mail set and an empty, defined dkim map: only the four base records.
Ms365EmptyDkimWitness ==
    /\ ret.fn = "DCL_MICROSOFT365"
    /\ ret.services.defined
    /\ ret.services.mail = "example-com"
    /\ ret.services.dkim.defined
    /\ ret.services.dkim.props = <<>>
    /\ Len(ret.value) = 4

(***************************************************************************)
(* lib/util.js, lib/generic.js: the deferred builders.                     *)
(*                                                                         *)
(* A closure returned by DCL_UTIL_DOMAIN is the record of the variables    *)
(* its factory captured.  `given` and `rest` keep the name and the         *)
(* trailing arguments as the builder was called with them; no code reads   *)
(* them, the properties do.                                                *)
(* log lists the calls into the host runtime: the wrapper reading          *)
(* domain.name and calling the factory, D_EXTEND and processDargs.         *)
(***************************************************************************)
FactoryCalled(domainName) == [call |-> "factory", domain |-> domainName]
D_EXTEND(zone, record) == [call |-> "D_EXTEND", zone |-> zone, record |-> record]
processDargs(modifiers, domainName) ==
    [call |-> "processDargs", record |-> modifiers, domain |-> domainName]

\* reverse = [ipv4, ipv6], with the items of a leading array argument appended.
HostPtrReverse(ipv4, ipv6, rest) ==
    IF Len(rest) > 0 /\ rest[1].isArray
    THEN <<ipv4, ipv6>> \o rest[1].items
    ELSE <<ipv4, ipv6>>

\* modifiers after modifiers.shift() took a leading array argument away.
HostPtrModifiers(rest) ==
    IF Len(rest) > 0 /\ rest[1].isArray THEN Tail(rest) ELSE rest

\* The pair [DCL_HOST(name, ipv4, ipv6), DCL_UTIL_DOMAIN(function (domain) ...)].
DCL_HOST_PTR(name, ipv4, ipv6, rest) ==
    << DCL_HOST(name, ipv4, ipv6, <<>>),
       [factory |-> "DCL_HOST_PTR", name |-> name, zone |-> null,
        reverse |-> HostPtrReverse(ipv4, ipv6, rest),
        modifiers |-> HostPtrModifiers(rest),
        given |-> name, ipv4 |-> ipv4, ipv6 |-> ipv6, rest |-> rest] >>

AcmeName(name) == IF name /= "@" THEN "_acme-challenge." \o name ELSE "_acme-challenge"

DCL_ACME(name, zone) ==
    [factory |-> "DCL_ACME", name |-> AcmeName(name), zone |-> zone,
     reverse |-> <<>>, modifiers |-> <<>>,
     given |-> name, ipv4 |-> null, ipv6 |-> null, rest |-> <<>>]

RECURSIVE Filter(_)
\* reverse.filter(function (alias) { return alias; })
Filter(reverse) ==
    IF reverse = <<>> THEN <<>>
    ELSE (IF Truthy(Head(reverse)) THEN <<Head(reverse)>> ELSE <<>>)
            \o Filter(Tail(reverse))

\* The factory of DCL_HOST_PTR: the D_EXTEND calls it makes; it returns nothing.
HostPtrFactory_firstOnly(c, domainName) ==
    LET aliases == Filter(c.reverse)
    IN  IF aliases = <<>> THEN <<>>
        ELSE << D_EXTEND(REV(aliases[1]),
                         PTR(aliases[1], DCL_UTIL_FQDN(domainName, c.name), c.modifiers)) >>

HostPtrFactory(c, domainName) ==
    LET aliases == Filter(c.reverse)
        data == [k \in 1..Len(aliases) |->
                    <<aliases[k],
                      PTR(aliases[k], DCL_UTIL_FQDN(domainName, c.name), c.modifiers)>>]
    IN  [k \in 1..Len(data) |-> D_EXTEND(REV(data[k][1]), data[k][2])]

AcmeFactory_hashName(c, domainName) ==
    CNAME(c.name, DCL_UTIL_FQDN(c.zone, DCL_UTIL_HASH(c.name)), <<>>)

\* The factory of DCL_ACME: the CNAME it returns.
AcmeFactory(c, domainName) ==
    LET origin == DCL_UTIL_FQDN(domainName, c.name)
        target == DCL_UTIL_FQDN(c.zone, DCL_UTIL_HASH(origin))
    IN  CNAME(c.name, target, <<>>)

DCL_UTIL_DOMAIN_always(c, domainName) ==
    <<FactoryCalled(domainName)>>
        \o (IF c.factory = "DCL_HOST_PTR"
            THEN Append(HostPtrFactory(c, domainName), processDargs(null, domainName))
            ELSE <<processDargs(AcmeFactory(c, domainName), domainName)>>)

\* The wrapper applied to a domain: the runtime calls it makes, in order.
\* var modifiers = factory(domain.name); if (modifiers) processDargs(modifiers, domain);
DCL_UTIL_DOMAIN(c, domainName) ==
    <<FactoryCalled(domainName)>>
        \o (IF c.factory = "DCL_HOST_PTR"
            THEN HostPtrFactory(c, domainName)
            ELSE <<processDargs(AcmeFactory(c, domainName), domainName)>>)

(***************************************************************************)
(* The host runtime evaluating a configuration: it calls builders and      *)
(* applies the closures it got to domains.                                 *)
(***************************************************************************)
MaxCalls == 3

Domains == {"example.com", "example.org"}
PtrNames == {"srv", "@"}
AcmeNames == {"@", "www"}
AcmeZones == {"acme.example.net"}
RestLists ==
    { <<>>,
      <<Modifier("TTL(300)")>>,
      <<Array(<<null, "10.0.0.9">>), Modifier("TTL(300)")>> }

\* The builder calls and closure applications made so far.
Applications == Cardinality({k \in 1..Len(log) : log[k].call = "factory"})
Calls == Cardinality(closures) + Applications

Init == ret = NoCall /\ closures = {} /\ log = <<>> /\ HashIdle /\ PartialIdle

CallHostPtr ==
    /\ Calls < MaxCalls
    /\ \E name \in PtrNames, ipv4 \in Ipv4s, ipv6 \in Ipv6s, rest \in RestLists :
          LET records == DCL_HOST_PTR(name, ipv4, ipv6, rest)
          IN  /\ closures' = closures \cup {records[2]}
              /\ ret' = [fn |-> "DCL_HOST_PTR", name |-> name, ipv4 |-> ipv4,
                         ipv6 |-> ipv6, rest |-> rest, value |-> records]
    /\ UNCHANGED <<log, hashVars, partialVars>>

CallAcme ==
    /\ Calls < MaxCalls
    /\ \E name \in AcmeNames, zone \in AcmeZones :
          LET closure == DCL_ACME(name, zone)
          IN  /\ closures' = closures \cup {closure}
              /\ ret' = [fn |-> "DCL_ACME", name |-> name, zone |-> zone,
                         value |-> closure]
    /\ UNCHANGED <<log, hashVars, partialVars>>

\* The runtime applies a closure to a domain; `from` is where its calls start in log.
ApplyClosure ==
    /\ Calls < MaxCalls
    /\ \E c \in closures, domainName \in Domains :
          /\ log' = log \o DCL_UTIL_DOMAIN(c, domainName)
          /\ ret' = [fn |-> "apply", closure |-> c, domain |-> domainName,
                     from |-> Len(log)]
    /\ UNCHANGED <<closures, hashVars, partialVars>>

Next == CallHostPtr \/ CallAcme \/ ApplyClosure

Spec == Init /\ [][Next]_vars

\* The calls the last application made.
Made == SubSeq(log, ret.from + 1, Len(log))
MadeOf(kind) == SelectSeq(Made, LAMBDA e : e.call = kind)

NonNull(seq) == SelectSeq(seq, LAMBDA a : a /= null)

(***************************************************************************)
(* C1.  Applying the closure of DCL_HOST_PTR(name, ipv4, ipv6, ...rest) to *)
(* a domain d makes exactly one D_EXTEND(REV(a), PTR(a, FQDN(d, name),     *)
(* ...mods)) call per non-null alias a, in order, the aliases being        *)
(* [ipv4, ipv6] followed by the items of rest[0] when it is a list and     *)
(* mods being rest without that list; none when every alias is null.       *)
(***************************************************************************)
OnePtrPerAlias ==
    (ret.fn = "apply" /\ ret.closure.factory = "DCL_HOST_PTR") =>
        LET c == ret.closure
            listFirst == Len(c.rest) > 0 /\ c.rest[1].isArray
            aliases == NonNull(<<c.ipv4, c.ipv6>>
                                  \o (IF listFirst THEN c.rest[1].items ELSE <<>>))
            mods == IF listFirst THEN SubSeq(c.rest, 2, Len(c.rest)) ELSE c.rest
            fqdn == DCL_UTIL_FQDN(ret.domain, c.name)
            calls == MadeOf("D_EXTEND")
        IN  /\ Len(calls) = Len(aliases)
            /\ \A k \in 1..Len(aliases) :
                  calls[k] = D_EXTEND(REV(aliases[k]), PTR(aliases[k], fqdn, mods))
            /\ aliases = <<>> => calls = <<>>

\* DCL_HOST_PTR("srv", "1.2.3.4", "::1") applied to example.com: two calls,
\* both with the PTR target srv.example.com.
TwoPtrWitness ==
    /\ ret.fn = "apply"
    /\ ret.closure.factory = "DCL_HOST_PTR"
    /\ ret.closure.name = "srv"
    /\ ret.closure.rest = <<>>
    /\ ret.domain = "example.com"
    /\ Len(MadeOf("D_EXTEND")) = 2
    /\ \A k \in 1..2 : MadeOf("D_EXTEND")[k].record.target = "srv.example.com."
    /\ MadeOf("D_EXTEND")[1].zone = REV("1.2.3.4")
    /\ MadeOf("D_EXTEND")[2].zone = REV("::1")

(***************************************************************************)
(* C2.  Applying DCL_ACME(n, z) to a domain d registers exactly one CNAME, *)
(* named "_acme-challenge" when n is "@" and "_acme-challenge." n          *)
(* otherwise, with target FQDN(z, HASH(FQDN(d, that name))); for n = "@",  *)
(* z = "acme.example.net", d = "example.com" the target is                 *)
(* HASH("_acme-challenge.example.com.") followed by ".acme.example.net.".  *)
(***************************************************************************)
AcmeRegistersOneCname ==
    (ret.fn = "apply" /\ ret.closure.factory = "DCL_ACME") =>
        LET c == ret.closure
            prefixed == IF c.given = "@" THEN "_acme-challenge"
                        ELSE "_acme-challenge." \o c.given
            target == DCL_UTIL_FQDN(c.zone,
                          DCL_UTIL_HASH(DCL_UTIL_FQDN(ret.domain, prefixed)))
        IN  /\ MadeOf("processDargs")
                  = <<processDargs(CNAME(prefixed, target, <<>>), ret.domain)>>
            /\ MadeOf("D_EXTEND") = <<>>
            /\ (c.given = "@" /\ c.zone = "acme.example.net" /\ ret.domain = "example.com")
                  => MadeOf("processDargs")[1].record.target
                        = DCL_UTIL_HASH("_acme-challenge.example.com.")
                              \o ".acme.example.net."

\* DCL_ACME("@", "acme.example.net") applied to example.com; fccfa2b0 is the
\* hash of "_acme-challenge.example.com.".
AcmeRootWitness ==
    /\ ret.fn = "apply"
    /\ ret.closure.factory = "DCL_ACME"
    /\ ret.closure.given = "@"
    /\ ret.domain = "example.com"
    /\ Len(Made) = 2
    /\ Made[2].call = "processDargs"
    /\ Made[2].record.name = "_acme-challenge"
    /\ Made[2].record.target = "fccfa2b0.acme.example.net."

(***************************************************************************)
(* C6.  The forward records of DCL_HOST_PTR(name, ipv4, ipv6, ...mods) are *)
(* the ones DCL_HOST(name, ipv4, ipv6, ...mods) emits, mods taken without  *)
(* a leading extra-alias list.                                             *)
(***************************************************************************)
HostPtrForwardHasModifiers ==
    ret.fn = "DCL_HOST_PTR" =>
        LET listFirst == Len(ret.rest) > 0 /\ ret.rest[1].isArray
            mods == IF listFirst THEN SubSeq(ret.rest, 2, Len(ret.rest)) ELSE ret.rest
        IN  ret.value[1] = DCL_HOST(ret.name, ret.ipv4, ret.ipv6, mods)

(***************************************************************************)
(* C9.  The reverse and ACME steps are deferred: a call of DCL_HOST_PTR or *)
(* DCL_ACME makes no call into the runtime and reads no domain name; calls *)
(* are made only when a closure the runtime holds is applied to a domain,  *)
(* and they are computed from the name of that domain; processDargs is     *)
(* called only for a factory that returned a value, never for the closure  *)
(* of DCL_HOST_PTR.                                                        *)
(***************************************************************************)
DeferredUntilApplied ==
    [][ LET c == ret'.closure
            d == ret'.domain
            new == SubSeq(log', Len(log) + 1, Len(log'))
        IN  /\ ret'.fn \in {"DCL_HOST_PTR", "DCL_ACME"} => log' = log
            /\ log' /= log =>
                /\ ret'.fn = "apply"
                /\ c \in closures
                /\ Len(log') > Len(log)
                /\ SubSeq(log', 1, Len(log)) = log
                /\ new[1] = FactoryCalled(d)
                /\ \A k \in 2..Len(new) :
                      \/ /\ new[k].call = "D_EXTEND"
                         /\ c.factory = "DCL_HOST_PTR"
                         /\ new[k].record.target = DCL_UTIL_FQDN(d, c.name)
                      \/ /\ new[k].call = "processDargs"
                         /\ c.factory = "DCL_ACME"
                         /\ new[k].domain = d
                         /\ new[k].record.target
                               = DCL_UTIL_FQDN(c.zone,
                                     DCL_UTIL_HASH(DCL_UTIL_FQDN(d, c.name)))
      ]_vars

\* One closure applied to two domains: each application read its own domain.
AppliedToTwoDomainsWitness ==
    /\ ret.fn = "apply"
    /\ ret.closure.factory = "DCL_HOST_PTR"
    /\ ret.closure.name = "srv"
    /\ Len(log) = 4
    /\ log[1] = FactoryCalled("example.com")
    /\ log[2].call = "D_EXTEND"
    /\ log[2].record.target = "srv.example.com."
    /\ log[3] = FactoryCalled("example.org")
    /\ log[4].call = "D_EXTEND"
    /\ log[4].record.target = "srv.example.org."

(***************************************************************************)
(* lib/cloudflare.js: DCL_CF_TUNNEL                                        *)
(***************************************************************************)
\* A value in a string concatenation: undefined reads "undefined".
StringOf(v) == IF v = null THEN "undefined" ELSE v

\* `rest` are the arguments after the second; modifiers is a fresh array
\* ([].slice.call(arguments).slice(2)) onto which CF_PROXY_ON is pushed.
DCL_CF_TUNNEL(name, tunnel_id, rest) ==
    LET modifiers == Append(rest, Modifier("CF_PROXY_ON"))
        tunnel_domain == StringOf(tunnel_id) \o ".cfargotunnel.com."
    IN  IF name = "@" THEN <<ALIAS("@", tunnel_domain, modifiers)>>
        ELSE <<CNAME(name, tunnel_domain, modifiers)>>

(***************************************************************************)
(* lib/generic.js: DCL_PARTIAL                                             *)
(*                                                                         *)
(* Arrays live in heap and are named by their index, so that two names of  *)
(* one array see each other's changes.  An argument is an opaque value     *)
(* (its text in `tag`) or a nested array, as for the modifiers above.      *)
(* A callable is [fn, args]: the builder and the reference of its own      *)
(* argument array; `source` (the caller's array), `captured` (the          *)
(* arguments as they were at construction) and `invoked` (how often it     *)
(* was called) are kept for the properties.                                *)
(***************************************************************************)
MaxCallables == 2
MaxInvocations == 2

Value(text) == Modifier(text)

\* A new array on the heap; its reference is the new length of the heap.
Alloc(h, array) == Append(h, array)

\* args = [].slice.call(args): the callable's own copy of the caller's array.
PartialSlice(h, source) == [heap |-> Alloc(h, h[source]), ref |-> Len(h) + 1]

\* [name].concat(args): a new array, args untouched.
PartialArgv_unshift(h, c, name) ==
    [heap |-> [h EXCEPT ![c.args] = <<Value(name)>> \o h[c.args]], ref |-> c.args]

PartialArgv(h, c, name) ==
    [heap |-> Alloc(h, <<Value(name)>> \o h[c.args]), ref |-> Len(h) + 1]

\* The k-th argument of a call, undefined (null) when it was not passed.
Argument(argv, k) == IF k <= Len(argv) THEN argv[k].tag ELSE null

\* fn.apply(null, argv): the builder called with the elements of argv.
Apply(fn, argv) ==
    CASE fn = "DCL_HOST" ->
            DCL_HOST(Argument(argv, 1), Argument(argv, 2), Argument(argv, 3),
                     SubSeq(argv, 4, Len(argv)))
      [] fn = "DCL_HOST_PTR" ->
            DCL_HOST_PTR(Argument(argv, 1), Argument(argv, 2), Argument(argv, 3),
                         SubSeq(argv, 4, Len(argv)))
      [] fn = "DCL_CF_TUNNEL" ->
            DCL_CF_TUNNEL(Argument(argv, 1), Argument(argv, 2),
                          SubSeq(argv, 3, Len(argv)))

\* The builders with the argument lists their _FN helpers are given.
PartialCalls ==
    { <<"DCL_CF_TUNNEL", <<Value("6ff42ae2"), Modifier("TTL(300)")>> >>,
      <<"DCL_HOST", <<Value("1.2.3.4"), Value("::1"), Modifier("TTL(300)")>> >>,
      <<"DCL_HOST_PTR",
        <<Value("1.2.3.4"), Value(null), Array(<<"10.0.0.9">>), Modifier("TTL(300)")>> >> }
InvokeNames == {"@", "www"}

PartialInit == ret = NoCall /\ heap = <<>> /\ callables = <<>> /\ HashIdle /\ RuntimeIdle

\* The caller builds an argument array and calls DCL_PARTIAL(fn, args).
CallPartial ==
    /\ Len(callables) < MaxCallables
    /\ \E call \in PartialCalls :
          LET source == Len(heap) + 1
              own == PartialSlice(Alloc(heap, call[2]), source)
              c == [fn |-> call[1], args |-> own.ref, source |-> source,
                    captured |-> call[2], invoked |-> 0]
          IN  /\ heap' = own.heap
              /\ callables' = Append(callables, c)
              /\ ret' = [fn |-> "DCL_PARTIAL", callable |-> c]
    /\ UNCHANGED <<hashVars, runtimeVars>>

\* The caller passes an array it has passed before to DCL_PARTIAL once more.
CallPartialAgain ==
    /\ Len(callables) < MaxCallables
    /\ \E k \in 1..Len(callables) :
          LET source == callables[k].source
              own == PartialSlice(heap, source)
              c == [fn |-> callables[k].fn, args |-> own.ref, source |-> source,
                    captured |-> heap[source], invoked |-> 0]
          IN  /\ heap' = own.heap
              /\ callables' = Append(callables, c)
              /\ ret' = [fn |-> "DCL_PARTIAL", callable |-> c]
    /\ UNCHANGED <<hashVars, runtimeVars>>

\* The caller empties the array it passed (args.length = 0).
CallerClear ==
    /\ \E k \in 1..Len(callables) :
          LET source == callables[k].source
          IN  /\ heap[source] /= <<>>
              /\ heap' = [heap EXCEPT ![source] = <<>>]
    /\ UNCHANGED <<ret, callables, hashVars, runtimeVars>>

\* c(name): return fn.apply(null, [name].concat(args)); the array built for
\* the call is garbage once the call has returned.
Invoke ==
    /\ \E k \in 1..Len(callables), name \in InvokeNames :
          LET c == callables[k]
              argv == PartialArgv(heap, c, name)
          IN  /\ c.invoked < MaxInvocations
              /\ heap' = SubSeq(argv.heap, 1, Len(heap))
              /\ callables' = [callables EXCEPT ![k].invoked = @ + 1]
              /\ ret' = [fn |-> "callable", index |-> k, name |-> name,
                         value |-> Apply(c.fn, argv.heap[argv.ref])]
    /\ UNCHANGED <<hashVars, runtimeVars>>

PartialNext == CallPartial \/ CallPartialAgain \/ CallerClear \/ Invoke

SpecPartial == PartialInit /\ [][PartialNext]_vars

(***************************************************************************)
(* C7.  c = DCL_PARTIAL(fn, args) satisfies c(name) = fn(name, ...args)    *)
(* with the arguments as they were when c was constructed, on every        *)
(* invocation, whatever was invoked before; two callables share no         *)
(* mutable state.                                                          *)
(***************************************************************************)
PartialAppliesCapturedArguments ==
    /\ ret.fn = "callable" =>
          LET c == callables[ret.index]
          IN  ret.value = Apply(c.fn, <<Value(ret.name)>> \o c.captured)
    /\ \A k \in 1..Len(callables) :
          /\ heap[callables[k].args] = callables[k].captured
          /\ \A j \in 1..Len(callables) :
                /\ callables[k].args /= callables[j].source
                /\ callables[k].args \in 1..Len(heap)
                /\ j /= k => callables[k].args /= callables[j].args

\* A DCL_CF_TUNNEL callable invoked for the second time, after another
\* callable was invoked and after the caller emptied the array it had passed.
PartialReinvokedWitness ==
    /\ ret.fn = "callable"
    /\ ret.index = 1
    /\ Len(callables) = 2
    /\ callables[1].fn = "DCL_CF_TUNNEL"
    /\ callables[1].invoked = 2
    /\ callables[2].fn = "DCL_HOST_PTR"
    /\ callables[2].invoked >= 1
    /\ heap[callables[1].source] /= callables[1].captured
    /\ ret.value = <<CNAME("www", "6ff42ae2.cfargotunnel.com.",
                           <<Modifier("TTL(300)"), Modifier("CF_PROXY_ON")>>)>>

=============================================================================
